---- MODULE Spec2Model ----
(***************************************************************************)
(* State-machine model of the IT-support chatbot backend (src/app.py):     *)
(* the in-memory session store, request validation, the /api/chat handler  *)
(* with its translate / search / generate pipeline and error mapping, and  *)
(* the /api/reset handler.                                                 *)
(*                                                                         *)
(* Text is a sequence of one-character strings, so that strip(), lower()   *)
(* and substring search are computed as the code computes them.  Time is   *)
(* an integer number of seconds read from the clock `now`.                 *)
(***************************************************************************)
EXTENDS Integers, Sequences, FiniteSets, TLC

(***************************************************************************)
(* Program constants                                                       *)
(***************************************************************************)
MAX_QUESTION_LENGTH == 500
MAX_HISTORY_SIZE == 10
RATE_LIMIT_SECONDS == 3
SESSION_TTL == 7200
max_retriesMore == 3 + 1
max_retries == 3
HISTORY_WINDOWMore == 5 + 1
HISTORY_WINDOW == 5
CONTEXT_DOCS == 3

(***************************************************************************)
(* Bounds of the model                                                     *)
(***************************************************************************)
NumReqs == 2          \* request slots that can be in flight together
MaxChats == 2         \* chat requests received in one behaviour of Spec
MaxResets == 1        \* reset requests received in one behaviour of Spec
MaxSeconds == 3       \* seconds the clock may stand past a multiple of the TTL
MaxEpochs == 1        \* multiples of the TTL the clock may reach
MaxHits == 4          \* hits the search may return in one reply

Reqs == 1..NumReqs
Idle == 0             \* the event loop runs no handler

(***************************************************************************)
(* Text helpers (Python str methods used by the code)                      *)
(***************************************************************************)
Whitespace == {" ", "\t", "\n", "\r"}

UpperCase == <<"A","B","C","D","E","F","G","H","I","J","K","L","M",
               "N","O","P","Q","R","S","T","U","V","W","X","Y","Z">>
LowerCase == <<"a","b","c","d","e","f","g","h","i","j","k","l","m",
               "n","o","p","q","r","s","t","u","v","w","x","y","z">>

LowerChar(c) ==
    IF \E i \in 1..26 : UpperCase[i] = c
    THEN LowerCase[CHOOSE i \in 1..26 : UpperCase[i] = c]
    ELSE c

\* str.lower()
Lower(s) == [i \in 1..Len(s) |-> LowerChar(s[i])]

RECURSIVE LStrip(_)
LStrip(s) ==
    IF s = <<>> THEN s
    ELSE IF Head(s) \in Whitespace THEN LStrip(Tail(s)) ELSE s

RECURSIVE RStrip(_)
RStrip(s) ==
    IF s = <<>> THEN s
    ELSE IF s[Len(s)] \in Whitespace THEN RStrip(SubSeq(s, 1, Len(s) - 1)) ELSE s

\* str.strip()
Strip(s) == RStrip(LStrip(s))

\* `p in s` for strings
Contains(s, p) ==
    \E i \in 1..(Len(s) - Len(p) + 1) : SubSeq(s, i, i + Len(p) - 1) = p

Repeat(c, n) == [i \in 1..n |-> c]

(***************************************************************************)
(* ChatRequest validation                                                  *)
(***************************************************************************)
dangerous ==
    { <<"<","s","c","r","i","p","t",">">>,
      <<"j","a","v","a","s","c","r","i","p","t",":">>,
      <<"D","R","O","P"," ","T","A","B","L","E">>,
      <<"D","E","L","E","T","E"," ","F","R","O","M">> }

\* Field(..., min_length=1, max_length=MAX_QUESTION_LENGTH): checked on the
\* value as received, before the validator runs.
FieldOk(raw) == Len(raw) >= 1 /\ Len(raw) <= MAX_QUESTION_LENGTH

\* The denylist test of validate_question, on the stripped value.
Suspect(v) ==
    LET lowered == Lower(v)
    IN  \E pattern \in dangerous : Contains(lowered, Lower(pattern))

\* validate_question: strips, raises on a denylisted substring, returns v.
validate_question(raw) ==
    LET v == Strip(raw)
    IN  IF Suspect(v) THEN [ok |-> FALSE, value |-> v]
        ELSE [ok |-> TRUE, value |-> v]

\* The whole of ChatRequest's validation of `question`.
ChatRequestValidate(raw) ==
    IF ~FieldOk(raw) THEN [ok |-> FALSE, value |-> raw]
    ELSE validate_question(raw)

(***************************************************************************)
(* Language detection: langdetect is an opaque seeded classifier; it is    *)
(* modelled as a fixed table over the texts of the model, raising (hence   *)
(* 'en') on text with no features.                                         *)
(***************************************************************************)
FrenchTexts == { <<"a","i","d","e">> }

detect_language(text) ==
    IF Strip(text) \in FrenchTexts THEN "fr" ELSE "en"

(***************************************************************************)
(* Session store                                                           *)
(***************************************************************************)
None == << "None" >>      \* last_question = None (no text is this value)
NoTime == -1              \* last_time = None
Absent == 0               \* session_id missing from the request
UnknownId == -2           \* a session_id made up by the client, never issued

NewSession(t) ==
    [chat_history |-> <<>>, last_question |-> None, last_time |-> NoTime,
     created_at |-> t]

EmptyStore == [s \in {} |-> NewSession(0)]

\* Variant: a session is created for every request
NeedsNewSessionAlways(store, session_id) == TRUE

\* `not session_id or session_id not in sessions_store`
NeedsNewSession(store, session_id) ==
    session_id = Absent \/ session_id \notin DOMAIN store

\* get_or_create_session: `fresh` is the value of os.urandom(16).hex().
get_or_create_session(store, session_id, fresh, t) ==
    IF NeedsNewSession(store, session_id)
    THEN [id |-> fresh,
          store |-> [s \in DOMAIN store \cup {fresh} |->
                        IF s = fresh THEN NewSession(t) ELSE store[s]]]
    ELSE [id |-> session_id, store |-> store]

\* Variant: a session is swept as soon as its age reaches the TTL
ExpiredInclusive(session, t) == (t - session.created_at) >= SESSION_TTL

\* clean_old_sessions: deletes the sessions older than the TTL.
Expired(session, t) == (t - session.created_at) > SESSION_TTL

clean_old_sessions(store, t) ==
    [s \in {x \in DOMAIN store : ~Expired(store[x], t)} |-> store[s]]

\* Variant: the window includes its end
IsDuplicateInclusive(session, question, t) ==
    /\ session.last_question = question
    /\ session.last_time # NoTime
    /\ (t - session.last_time) <= RATE_LIMIT_SECONDS

\* The duplicate test of chat().
IsDuplicate(session, question, t) ==
    /\ session.last_question = question
    /\ session.last_time # NoTime
    /\ (t - session.last_time) < RATE_LIMIT_SECONDS

\* history[-n:]
LastN(h, n) == IF Len(h) > n THEN SubSeq(h, Len(h) - n + 1, Len(h)) ELSE h

\* Variant: the cut is one entry short of the cap
TruncateHistoryOdd(h) ==
    IF Len(h) > MAX_HISTORY_SIZE * 2 THEN LastN(h, MAX_HISTORY_SIZE * 2 - 1) ELSE h

\* Variant: keeps the oldest entries instead of the newest
TruncateHistoryOldest(h) ==
    IF Len(h) > MAX_HISTORY_SIZE * 2 THEN SubSeq(h, 1, MAX_HISTORY_SIZE * 2) ELSE h

\* The session update at the end of chat().
TruncateHistory(h) ==
    IF Len(h) > MAX_HISTORY_SIZE * 2 THEN LastN(h, MAX_HISTORY_SIZE * 2) ELSE h

\* Variant: the turn is appended but last_question is left as it was
RecordTurnKeepingLast(session, question, answer, t) ==
    [session EXCEPT
        !.chat_history = TruncateHistory(
            Append(Append(@, [role |-> "user", content |-> question]),
                   [role |-> "assistant", content |-> answer])),
        !.last_time = t]

RecordTurn(session, question, answer, t) ==
    [session EXCEPT
        !.chat_history = TruncateHistory(
            Append(Append(@, [role |-> "user", content |-> question]),
                   [role |-> "assistant", content |-> answer])),
        !.last_question = question,
        !.last_time = t]

(***************************************************************************)
(* Canned texts and the collaborators' possible replies                    *)
(***************************************************************************)
NoInfoFr == << "Je n'ai pas trouve d'information pertinente dans ma base de connaissances IT. Pouvez-vous reformuler ou contacter le support au poste 5555?" >>
NoInfoEn == << "I couldn't find relevant information in my IT knowledge base. Could you rephrase or contact support at extension 5555?" >>
TimeoutFr == << "Desole, le service met trop de temps. Reessayez." >>
TimeoutEn == << "Sorry, service timeout. Please retry." >>

DupMsgFr == "Veuillez attendre quelques secondes avant de soumettre la meme question."
DupMsgEn == "Please wait a few seconds before submitting the same question."
BusyFr == "Services Azure surcharges. Reessayez dans 30s."
BusyEn == "Azure services busy. Retry in 30s."
ServerFr == "Erreur serveur Azure."
ServerEn == "Azure server error."
CommMsg == "Erreur communication Azure"
InternalMsg == "Erreur interne: ..."
ValidationMsg == "validation error"

\* The canned answer of chat() when the context is empty.
NoInfoAnswer(user_lang) == IF user_lang = "fr" THEN NoInfoFr ELSE NoInfoEn

\* Variant: the apology is always the English one
TimeoutAnswerEnglish(user_lang) == TimeoutEn

\* The canned answer of generate_answer() on a timeout.
TimeoutAnswer(user_lang) == IF user_lang = "fr" THEN TimeoutFr ELSE TimeoutEn

\* The message of the duplicate rejection.
DupMsg(user_lang) == IF user_lang = "fr" THEN DupMsgFr ELSE DupMsgEn

\* Variant: status 500 itself is not taken for a server error
MapHTTPErrorAbove500(status_code, user_lang) ==
    IF status_code = 429
    THEN [status |-> 503, detail |-> IF user_lang = "fr" THEN BusyFr ELSE BusyEn]
    ELSE IF status_code > 500
    THEN [status |-> 503, detail |-> IF user_lang = "fr" THEN ServerFr ELSE ServerEn]
    ELSE [status |-> 500, detail |-> CommMsg]

\* `except requests.exceptions.HTTPError` of chat(): the reply for an
\* upstream HTTP error status.
MapHTTPError(status_code, user_lang) ==
    IF status_code = 429
    THEN [status |-> 503, detail |-> IF user_lang = "fr" THEN BusyFr ELSE BusyEn]
    ELSE IF status_code >= 500
    THEN [status |-> 503, detail |-> IF user_lang = "fr" THEN ServerFr ELSE ServerEn]
    ELSE [status |-> 500, detail |-> CommMsg]

\* `except Exception` of chat().
MapException == [status |-> 500, detail |-> InternalMsg]

\* Statuses for which response.raise_for_status() raises HTTPError.
RaisesForStatus(status_code) == status_code >= 400 /\ status_code < 600

\* Error statuses a collaborator may answer with.
ErrorStatuses == {404, 429, 500}

\* What the translation call may give back for a French question.
Translation(question) ==
    IF question = <<"a","i","d","e">> THEN <<"h","e","l","p">> ELSE question

\* Search hits: a hit has a content and may lack a title.
DocA == [title |-> <<"V","P","N">>, content |-> <<"c","1">>, titled |-> TRUE]
DocB == [title |-> <<>>, content |-> <<"c","2">>, titled |-> FALSE]
SearchValues == { <<>>, <<DocB, DocA>>, <<DocA, DocB, DocB, DocA>> }

\* Answers the generation collaborator may produce (already stripped).
Answer1 == <<"answer 1">>
Answer2 == <<"answer 2">>
Answers == {Answer1, Answer2}

\* doc.get('title', default)
TitleOr(doc, default) == IF doc.titled THEN doc.title ELSE default

\* Variant: the slice keeps every element
FirstNUncapped(s, n) == s

\* s[:n]
FirstN(s, n) == IF Len(s) > n THEN SubSeq(s, 1, n) ELSE s

\* The context of chat(): one labeled section per hit of documents[:3].
\* A section is never blank (it starts with "[Document: "), so the joined
\* text is blank exactly when there is no section.
BuildContext(documents) ==
    [i \in 1..Len(FirstN(documents, CONTEXT_DOCS)) |->
        [label |-> TitleOr(documents[i], <<"N","/","A">>),
         content |-> documents[i].content]]

BuildSources(documents) ==
    [i \in 1..Len(FirstN(documents, CONTEXT_DOCS)) |->
        TitleOr(documents[i], <<"Document sans titre">>)]

\* The system prompt of generate_answer(): a fixed text around the language
\* of the question and the context.
SystemPrompt(context, user_lang) ==
    [language |-> IF user_lang = "fr" THEN "French" ELSE "English",
     context |-> context]

\* The message list of generate_answer(): the system prompt, the entries of
\* chat_history[-5:], the question.
BuildMessages(context, question, chat_history) ==
    << [role |-> "system",
        content |-> SystemPrompt(context, detect_language(question))] >>
    \o [i \in 1..Len(LastN(chat_history, HISTORY_WINDOW)) |->
          [role |-> LastN(chat_history, HISTORY_WINDOW)[i].role,
           content |-> LastN(chat_history, HISTORY_WINDOW)[i].content]]
    \o << [role |-> "user", content |-> question] >>

\* Variant: tests for a missing context, which never is
ContextBlankNever(context) == FALSE

\* `not context.strip()`
ContextBlank(context) == Len(context) = 0

(***************************************************************************)
(* State                                                                   *)
(***************************************************************************)
VARIABLES
    now,             \* the clock read by datetime.now()
    sessions_store,  \* session id -> session
    next_id,         \* the next value os.urandom(16).hex() gives
    req,             \* request slot -> the locals of its chat() call, with
                     \*   calls: the steps taken, snap: the session as
                     \*   get_or_create_session returned it, search_reply:
                     \*   the last reply of the search service,
                     \*   translate_reply and gen_reply: the outcome of the
                     \*   translation and of the generation call, posts:
                     \*   the requests sent to the search service, messages:
                     \*   the message list sent by generate_answer, upstream:
                     \*   the status of the HTTPError chat() caught
    loop,            \* the slot whose handler the event loop runs, or Idle
    reset_resp,      \* the reply of the last /api/reset call
    chats,           \* chat requests received so far
    resets,          \* reset requests received so far
    recorded,        \* stored session id -> every turn ever recorded for it
    reset_ids        \* ids removed by a reset

vars == <<now, sessions_store, next_id, req, loop, reset_resp, chats, resets,
          recorded, reset_ids>>

IdleReq ==
    [pc |-> "idle", raw |-> <<>>, question |-> <<>>, session_id |-> Absent,
     sid |-> Absent, user_lang |-> "", translated_query |-> <<>>,
     attempt |-> 0, documents |-> <<>>, context |-> <<>>, sources |-> <<>>,
     answer |-> <<>>, status |-> 0, detail |-> "", calls |-> <<>>,
     snap |-> NewSession(0), translate_reply |-> "", search_reply |-> "",
     gen_reply |-> "", upstream |-> 0, posts |-> 0, messages |-> <<>>]

NoReset == [session_id |-> Absent, status |-> 0]

Init ==
    /\ now = 0
    /\ sessions_store = EmptyStore
    /\ next_id = 1
    /\ req = [r \in Reqs |-> IdleReq]
    /\ loop = Idle
    /\ reset_resp = NoReset
    /\ chats = 0
    /\ resets = 0
    /\ recorded = EmptyStore
    /\ reset_ids = {}

(***************************************************************************)
(* Scheduling: chat() and reset_session() are `async def` handlers that    *)
(* never await, so a handler keeps the event loop from its first statement *)
(* to its reply.  AwaitPoints are the positions at which chat() suspends.  *)
(***************************************************************************)
\* Positions of chat() at which it waits for a collaborator's reply.
BlockingCalls == {"translate", "search", "answer"}

AwaitPointsAsync == BlockingCalls
AwaitPoints == {}

\* A reply is sent as soon as its handler has produced it: nothing else
\* happens while one is waiting to be sent.
Quiet == reset_resp = NoReset /\ \A r \in Reqs : req[r].pc # "done"

\* An idle event loop starts a waiting handler at once: no request arrives
\* and no time passes while a request waits for an idle loop.
Settled == Quiet /\ ~(loop = Idle /\ \E r \in Reqs : req[r].pc = "queued")

Runs(r) ==
    /\ Quiet
    /\ loop = r \/ (loop = Idle /\ req[r].pc \in AwaitPoints)

After(r, pc) == IF pc \in AwaitPoints \cup {"done"} THEN Idle ELSE r

\* chat() returns or raises: its reply is kept, its other locals are gone.
Reply(q, status, detail) ==
    [q EXCEPT !.pc = "done", !.status = status, !.detail = detail,
              !.translated_query = <<>>, !.attempt = 0, !.context = <<>>]

Call(q, name) == [q EXCEPT !.calls = Append(@, name)]

(***************************************************************************)
(* The clock                                                               *)
(***************************************************************************)
TickSteps == {1, SESSION_TTL}

\* Seconds pass while no handler runs or while one waits for a collaborator;
\* the statements between two calls take no time.  chat() reads the clock
\* before its first call and after its last one only, so the time its calls
\* take is let pass at the first of them.
TickPoint == "translate"

Tick(d) ==
    /\ Settled
    /\ IF loop = Idle THEN TRUE ELSE req[loop].pc = TickPoint
    /\ (now + d) % SESSION_TTL <= MaxSeconds
    /\ (now + d) \div SESSION_TTL <= MaxEpochs
    /\ now' = now + d
    /\ UNCHANGED <<sessions_store, next_id, req, loop, reset_resp, chats,
                   resets, recorded, reset_ids>>

(***************************************************************************)
(* POST /api/chat                                                          *)
(***************************************************************************)
\* The request body is parsed into a ChatRequest before chat() is called; a
\* validation error is answered with 422 and chat() never runs.
Free(r) == req[r].pc = "idle"

Receive(r, raw, session_id, cap) ==
    /\ Settled
    /\ Free(r)
    /\ \A other \in Reqs : other < r => ~Free(other)
    /\ chats < cap
    /\ chats' = chats + 1
    /\ LET v == ChatRequestValidate(raw)
           q == [IdleReq EXCEPT !.raw = raw, !.session_id = session_id]
       IN  req' = [req EXCEPT ![r] =
                IF v.ok
                THEN [q EXCEPT !.pc = "queued", !.question = v.value]
                ELSE Reply(q, 422, ValidationMsg)]
    /\ UNCHANGED <<now, sessions_store, next_id, loop, reset_resp, resets,
                   recorded, reset_ids>>

\* chat(): clean_old_sessions()
Sweep(r) ==
    /\ Quiet
    /\ loop = Idle
    /\ req[r].pc = "queued"
    /\ sessions_store' = clean_old_sessions(sessions_store, now)
    /\ recorded' = [s \in DOMAIN sessions_store' |-> recorded[s]]
    /\ req' = [req EXCEPT ![r] =
            [Call(req[r], "clean_old_sessions") EXCEPT !.pc = "lookup"]]
    /\ loop' = After(r, "lookup")
    /\ UNCHANGED <<now, next_id, reset_resp, chats, resets, reset_ids>>

\* chat(): get_or_create_session(request.session_id), detect_language(question)
Lookup(r) ==
    /\ Runs(r)
    /\ req[r].pc = "lookup"
    /\ LET got == get_or_create_session(sessions_store, req[r].session_id,
                                        next_id, now)
           created == got.id # req[r].session_id
       IN  /\ sessions_store' = got.store
           /\ next_id' = IF created THEN next_id + 1 ELSE next_id
           /\ recorded' = IF created
                          THEN [s \in DOMAIN recorded \cup {got.id} |->
                                   IF s = got.id THEN <<>> ELSE recorded[s]]
                          ELSE recorded
           /\ req' = [req EXCEPT ![r] =
                   [Call(req[r], "get_or_create_session") EXCEPT
                       !.pc = "dupcheck",
                       !.sid = got.id,
                       !.snap = got.store[got.id],
                       !.user_lang = detect_language(req[r].question)]]
    /\ loop' = After(r, "dupcheck")
    /\ UNCHANGED <<now, reset_resp, chats, resets, reset_ids>>

\* The session chat() holds a reference to: the stored one, or (had it been
\* deleted meanwhile) the detached dict, whose content is the snapshot.
SessionOf(r) ==
    IF req[r].sid \in DOMAIN sessions_store
    THEN sessions_store[req[r].sid] ELSE req[r].snap

\* Variant: a rejected duplicate restarts the session's window
DupRejectRefreshing(r) ==
    /\ Runs(r)
    /\ req[r].pc = "dupcheck"
    /\ IsDuplicate(SessionOf(r), req[r].question, now)
    /\ req' = [req EXCEPT ![r] =
            Reply(Call(req[r], "duplicate_check"), 429, DupMsg(req[r].user_lang))]
    /\ sessions_store' = [sessions_store EXCEPT ![req[r].sid].last_time = now + 1]
    /\ loop' = After(r, "done")
    /\ UNCHANGED <<now, next_id, reset_resp, chats, resets, recorded, reset_ids>>

\* chat(): the duplicate test, rejecting with 429
DupReject(r) ==
    /\ Runs(r)
    /\ req[r].pc = "dupcheck"
    /\ IsDuplicate(SessionOf(r), req[r].question, now)
    /\ req' = [req EXCEPT ![r] =
            Reply(Call(req[r], "duplicate_check"), 429, DupMsg(req[r].user_lang))]
    /\ loop' = After(r, "done")
    /\ UNCHANGED <<now, sessions_store, next_id, reset_resp, chats, resets,
                   recorded, reset_ids>>

\* Variant: the question is translated before the duplicate test passes
DupPassTranslated(r) ==
    /\ Runs(r)
    /\ req[r].pc = "dupcheck"
    /\ ~IsDuplicate(SessionOf(r), req[r].question, now)
    /\ req' = [req EXCEPT ![r] =
            [Call(Call(req[r], "translate_to_english"), "duplicate_check")
                EXCEPT !.pc = "translate"]]
    /\ loop' = After(r, "translate")
    /\ UNCHANGED <<now, sessions_store, next_id, reset_resp, chats, resets,
                   recorded, reset_ids>>

\* chat(): the duplicate test, passing
DupPass(r) ==
    /\ Runs(r)
    /\ req[r].pc = "dupcheck"
    /\ ~IsDuplicate(SessionOf(r), req[r].question, now)
    /\ req' = [req EXCEPT ![r] =
            [Call(req[r], "duplicate_check") EXCEPT !.pc = "translate"]]
    /\ loop' = After(r, "translate")
    /\ UNCHANGED <<now, sessions_store, next_id, reset_resp, chats, resets,
                   recorded, reset_ids>>

\* Variant: the translation call is made for an English question too
TranslateSkipCalling(r) ==
    /\ Runs(r)
    /\ req[r].pc = "translate"
    /\ detect_language(req[r].question) = "en"
    /\ req' = [req EXCEPT ![r] =
            [Call(Call(req[r], "translate_to_english"), "translate_post") EXCEPT
                !.pc = "search", !.translate_reply = "ok",
                !.translated_query = req[r].question]]
    /\ loop' = After(r, "search")
    /\ UNCHANGED <<now, sessions_store, next_id, reset_resp, chats, resets,
                   recorded, reset_ids>>

\* translate_to_english(): an English question is returned as it is.
TranslateSkip(r) ==
    /\ Runs(r)
    /\ req[r].pc = "translate"
    /\ detect_language(req[r].question) = "en"
    /\ req' = [req EXCEPT ![r] =
            [Call(req[r], "translate_to_english") EXCEPT
                !.pc = "search", !.translated_query = req[r].question]]
    /\ loop' = After(r, "search")
    /\ UNCHANGED <<now, sessions_store, next_id, reset_resp, chats, resets,
                   recorded, reset_ids>>

\* translate_to_english(): the translation call and its outcome; every
\* failure falls back to the question.
TranslateOutcomes == {"ok", "timeout", "http_error", "malformed"}

\* Variant: a failed translation call is raised to chat()
TranslateCallRaising(r, outcome) ==
    /\ Runs(r)
    /\ req[r].pc = "translate"
    /\ detect_language(req[r].question) # "en"
    /\ req' = [req EXCEPT ![r] =
            IF outcome = "ok"
            THEN [Call(Call(req[r], "translate_to_english"), "translate_post") EXCEPT
                     !.pc = "search",
                     !.translate_reply = outcome,
                     !.translated_query = Translation(req[r].question)]
            ELSE [Reply(Call(Call(req[r], "translate_to_english"), "translate_post"),
                        MapException.status, MapException.detail) EXCEPT
                     !.translate_reply = outcome]]
    /\ loop' = After(r, IF outcome = "ok" THEN "search" ELSE "done")
    /\ UNCHANGED <<now, sessions_store, next_id, reset_resp, chats, resets,
                   recorded, reset_ids>>

TranslateCall(r, outcome) ==
    /\ Runs(r)
    /\ req[r].pc = "translate"
    /\ detect_language(req[r].question) # "en"
    /\ req' = [req EXCEPT ![r] =
            [Call(Call(req[r], "translate_to_english"), "translate_post") EXCEPT
                !.pc = "search",
                !.translate_reply = outcome,
                !.translated_query =
                    IF outcome = "ok" THEN Translation(req[r].question)
                    ELSE req[r].question]]
    /\ loop' = After(r, "search")
    /\ UNCHANGED <<now, sessions_store, next_id, reset_resp, chats, resets,
                   recorded, reset_ids>>

(***************************************************************************)
(* search_documents(): one action per outcome of one attempt.  `attempt`   *)
(* is the loop variable of `for attempt in range(max_retries)`.            *)
(***************************************************************************)
Searching(r) == Runs(r) /\ req[r].pc = "search" /\ req[r].attempt < max_retries

\* The call of search_documents() is logged when its first request is sent.
Posted(q, reply) ==
    [(IF q.attempt = 0 THEN Call(q, "search_documents") ELSE q)
        EXCEPT !.search_reply = reply, !.posts = q.posts + 1]

\* chat() after search_documents() returned: documents, context, sources.
Assembled(q, documents) ==
    [q EXCEPT !.pc = "answer",
              !.attempt = 0,
              !.documents = documents,
              !.context = BuildContext(documents),
              !.sources = BuildSources(documents)]

\* A 200 reply: the results are returned.
SearchOk(r, value) ==
    /\ Searching(r)
    /\ req' = [req EXCEPT ![r] = Assembled(Posted(req[r], "200"), value)]
    /\ loop' = After(r, "answer")
    /\ UNCHANGED <<now, sessions_store, next_id, reset_resp, chats, resets,
                   recorded, reset_ids>>

\* A 429 reply: sleep, `continue`; when it was the last attempt the loop
\* ends and search_documents() returns {"value": []}.
SearchRateLimited(r) ==
    /\ Searching(r)
    /\ LET q == Posted(req[r], "429")
       IN  req' = [req EXCEPT ![r] =
               IF q.attempt + 1 < max_retries
               THEN [q EXCEPT !.attempt = q.attempt + 1]
               ELSE Assembled([q EXCEPT !.attempt = q.attempt + 1], <<>>)]
    /\ loop' = After(r, IF req[r].attempt + 1 < max_retries THEN "search" ELSE "answer")
    /\ UNCHANGED <<now, sessions_store, next_id, reset_resp, chats, resets,
                   recorded, reset_ids>>

\* Variant: any error status is retried like a 429
SearchHttpErrorRetrying(r, status_code) ==
    /\ Searching(r)
    /\ status_code # 429
    /\ RaisesForStatus(status_code)
    /\ LET q == Posted(req[r], "error")
       IN  req' = [req EXCEPT ![r] =
               IF q.attempt + 1 < max_retries
               THEN [q EXCEPT !.attempt = q.attempt + 1]
               ELSE Assembled([q EXCEPT !.attempt = q.attempt + 1], <<>>)]
    /\ loop' = After(r, IF req[r].attempt + 1 < max_retries THEN "search" ELSE "answer")
    /\ UNCHANGED <<now, sessions_store, next_id, reset_resp, chats, resets,
                   recorded, reset_ids>>

\* Another error status: raise_for_status() raises HTTPError, re-raised by
\* `except Exception` and mapped by chat().
SearchHttpError(r, status_code) ==
    /\ Searching(r)
    /\ status_code # 429
    /\ RaisesForStatus(status_code)
    /\ LET m == MapHTTPError(status_code, req[r].user_lang)
       IN  req' = [req EXCEPT ![r] =
               [Reply(Posted(req[r], "error"), m.status, m.detail) EXCEPT
                   !.upstream = status_code]]
    /\ loop' = After(r, "done")
    /\ UNCHANGED <<now, sessions_store, next_id, reset_resp, chats, resets,
                   recorded, reset_ids>>

\* A timeout: re-raised on the last attempt (chat() answers 500), otherwise
\* the loop goes on.
SearchTimeout(r) ==
    /\ Searching(r)
    /\ LET q == Posted(req[r], "timeout")
           last == q.attempt = max_retries - 1
       IN  /\ req' = [req EXCEPT ![r] =
                  IF last THEN Reply(q, MapException.status, MapException.detail)
                  ELSE [q EXCEPT !.attempt = q.attempt + 1]]
           /\ loop' = After(r, IF last THEN "done" ELSE "search")
    /\ UNCHANGED <<now, sessions_store, next_id, reset_resp, chats, resets,
                   recorded, reset_ids>>

\* Any other exception (connection error, malformed body): re-raised at once.
SearchException(r) ==
    /\ Searching(r)
    /\ req' = [req EXCEPT ![r] =
            Reply(Posted(req[r], "exception"), MapException.status,
                  MapException.detail)]
    /\ loop' = After(r, "done")
    /\ UNCHANGED <<now, sessions_store, next_id, reset_resp, chats, resets,
                   recorded, reset_ids>>

(***************************************************************************)
(* chat() step 4: the canned answer, or generate_answer() and its outcome  *)
(***************************************************************************)
Answering(r) == Runs(r) /\ req[r].pc = "answer"

AnswerCanned(r) ==
    /\ Answering(r)
    /\ ContextBlank(req[r].context)
    /\ req' = [req EXCEPT ![r] =
            [req[r] EXCEPT !.pc = "record",
                           !.answer = NoInfoAnswer(req[r].user_lang)]]
    /\ loop' = After(r, "record")
    /\ UNCHANGED <<now, sessions_store, next_id, reset_resp, chats, resets,
                   recorded, reset_ids>>

Generating(r) == Answering(r) /\ ~ContextBlank(req[r].context)

\* generate_answer(context, question, session_data['chat_history']) is
\* called and sends its message list.
Sent(r) ==
    [Call(req[r], "generate_answer") EXCEPT
        !.messages = BuildMessages(req[r].context, req[r].question,
                                   SessionOf(r).chat_history)]

GenerateOk(r, answer) ==
    /\ Generating(r)
    /\ req' = [req EXCEPT ![r] =
            [Sent(r) EXCEPT
                !.pc = "record", !.gen_reply = "200", !.answer = answer]]
    /\ loop' = After(r, "record")
    /\ UNCHANGED <<now, sessions_store, next_id, reset_resp, chats, resets,
                   recorded, reset_ids>>

GenerateTimeout(r) ==
    /\ Generating(r)
    /\ req' = [req EXCEPT ![r] =
            [Sent(r) EXCEPT
                !.pc = "record",
                !.gen_reply = "timeout",
                !.answer = TimeoutAnswer(detect_language(req[r].question))]]
    /\ loop' = After(r, "record")
    /\ UNCHANGED <<now, sessions_store, next_id, reset_resp, chats, resets,
                   recorded, reset_ids>>

GenerateHttpError(r, status_code) ==
    /\ Generating(r)
    /\ RaisesForStatus(status_code)
    /\ LET m == MapHTTPError(status_code, req[r].user_lang)
       IN  req' = [req EXCEPT ![r] =
               [Reply(Sent(r), m.status, m.detail) EXCEPT
                   !.gen_reply = "error", !.upstream = status_code]]
    /\ loop' = After(r, "done")
    /\ UNCHANGED <<now, sessions_store, next_id, reset_resp, chats, resets,
                   recorded, reset_ids>>

GenerateException(r) ==
    /\ Generating(r)
    /\ req' = [req EXCEPT ![r] =
            [Reply(Sent(r), MapException.status,
                   MapException.detail) EXCEPT !.gen_reply = "exception"]]
    /\ loop' = After(r, "done")
    /\ UNCHANGED <<now, sessions_store, next_id, reset_resp, chats, resets,
                   recorded, reset_ids>>

(***************************************************************************)
(* chat(): the session update and the reply                                *)
(***************************************************************************)
Record(r) ==
    /\ Runs(r)
    /\ req[r].pc = "record"
    /\ LET sid == req[r].sid
           q == req[r]
       IN  /\ sessions_store' =
                  IF sid \in DOMAIN sessions_store
                  THEN [sessions_store EXCEPT ![sid] =
                           RecordTurn(sessions_store[sid], q.question, q.answer, now)]
                  ELSE sessions_store
           /\ recorded' =
                  IF sid \in DOMAIN recorded
                  THEN [recorded EXCEPT ![sid] =
                           Append(Append(recorded[sid],
                                         [role |-> "user", content |-> q.question]),
                                  [role |-> "assistant", content |-> q.answer])]
                  ELSE recorded
           /\ req' = [req EXCEPT ![r] = Reply(Call(q, "record"), 200, "")]
    /\ loop' = After(r, "done")
    /\ UNCHANGED <<now, next_id, reset_resp, chats, resets, reset_ids>>

(***************************************************************************)
(* POST /api/reset/{session_id}                                            *)
(***************************************************************************)
\* Variant: a reset clears the whole store
reset_sessionAll(session_id) ==
    /\ Settled
    /\ loop = Idle
    /\ resets < MaxResets
    /\ resets' = resets + 1
    /\ IF session_id \in DOMAIN sessions_store
       THEN /\ sessions_store' = EmptyStore
            /\ recorded' = EmptyStore
            /\ reset_resp' = [session_id |-> session_id, status |-> 200]
            /\ reset_ids' = reset_ids \cup {session_id}
       ELSE /\ reset_resp' = [session_id |-> session_id, status |-> 404]
            /\ UNCHANGED <<sessions_store, reset_ids, recorded>>
    /\ UNCHANGED <<now, next_id, req, loop, chats>>

reset_session(session_id) ==
    /\ Settled
    /\ loop = Idle
    /\ resets < MaxResets
    /\ resets' = resets + 1
    /\ IF session_id \in DOMAIN sessions_store
       THEN /\ sessions_store' =
                   [s \in DOMAIN sessions_store \ {session_id} |-> sessions_store[s]]
            /\ recorded' = [s \in DOMAIN sessions_store' |-> recorded[s]]
            /\ reset_resp' = [session_id |-> session_id, status |-> 200]
            /\ reset_ids' = reset_ids \cup {session_id}
       ELSE /\ reset_resp' = [session_id |-> session_id, status |-> 404]
            /\ UNCHANGED <<sessions_store, reset_ids, recorded>>
    /\ UNCHANGED <<now, next_id, req, loop, chats>>

\* A reply is sent; the slot of a chat request is free again.
Deliver(r) ==
    /\ req[r].pc = "done"
    /\ req' = [req EXCEPT ![r] = IdleReq]
    /\ UNCHANGED <<now, sessions_store, next_id, loop, reset_resp, chats,
                   resets, recorded, reset_ids>>

DeliverReset ==
    /\ reset_resp # NoReset
    /\ reset_resp' = NoReset
    /\ UNCHANGED <<now, sessions_store, next_id, req, loop, chats, resets,
                   recorded, reset_ids>>

(***************************************************************************)
(* Specifications                                                          *)
(***************************************************************************)
\* Request bodies of the model: an English question, a French question.
RawQuestions ==
    { <<"v","p","n">>, <<"a","i","d","e">> }

\* Request bodies for the validation: blank, empty, denylisted, too long.
RawInputs ==
    RawQuestions \cup
    { <<" ","v","p","n"," ">>,
      <<" "," ">>,
      <<>>,
      <<"x","<","S","c","r","i","p","t",">">>,
      <<"d","r","o","p"," ","t","a","b","l","e">>,
      <<"J","a","v","a","S","c","r","i","p","t",":">>,
      <<"d","e","l","e","t","e"," ","f","r","o","m"," ","t">>,
      <<"d","r","o","p","t","a","b","l","e">>,
      Repeat("a", MAX_QUESTION_LENGTH),
      Repeat("a", MAX_QUESTION_LENGTH + 1),
      Repeat(" ", MAX_QUESTION_LENGTH + 1) }

\* Session ids a client may send: none, one it was given, one it made up.
IssuedIds == 1..(next_id - 1)
ClientIds == {Absent} \cup IssuedIds

\* The next-state relation for requests in the slots R, with bodies `raws`,
\* at most `cap` chat requests, and the collaborators' replies drawn from
\* `statuses`, `values` and `answers`.
Step(R, raws, cap, statuses, values, answers) ==
    \/ \E d \in TickSteps : Tick(d)
    \/ \E r \in R, raw \in raws, session_id \in ClientIds :
           Receive(r, raw, session_id, cap)
    \/ \E r \in R : Sweep(r)
    \/ \E r \in R : Lookup(r)
    \/ \E r \in R : DupReject(r)
    \/ \E r \in R : DupPass(r)
    \/ \E r \in R : TranslateSkip(r)
    \/ \E r \in R, outcome \in TranslateOutcomes : TranslateCall(r, outcome)
    \/ \E r \in R, value \in values : SearchOk(r, value)
    \/ \E r \in R : SearchRateLimited(r)
    \/ \E r \in R, status_code \in statuses : SearchHttpError(r, status_code)
    \/ \E r \in R : SearchTimeout(r)
    \/ \E r \in R : SearchException(r)
    \/ \E r \in R : AnswerCanned(r)
    \/ \E r \in R, answer \in answers : GenerateOk(r, answer)
    \/ \E r \in R : GenerateTimeout(r)
    \/ \E r \in R, status_code \in statuses : GenerateHttpError(r, status_code)
    \/ \E r \in R : GenerateException(r)
    \/ \E r \in R : Record(r)
    \/ \E r \in R : Deliver(r)
    \/ \E session_id \in IssuedIds \cup {UnknownId} : reset_session(session_id)
    \/ DeliverReset

\* Requests handled one after the other.
Next == Step({1}, RawQuestions, MaxChats, ErrorStatuses, SearchValues, {Answer1})

Spec == Init /\ [][Next]_vars

(***************************************************************************)
(* A session that already holds MAX_HISTORY_SIZE - 1 turns: the state      *)
(* after that many chat requests, sent at time 0 with the session's id and *)
(* alternating questions, each answered from one search hit.               *)
(***************************************************************************)
Vpn == <<"v","p","n">>
Aide == <<"a","i","d","e">>

TurnOf(k) ==
    << [role |-> "user", content |-> IF k % 2 = 1 THEN Vpn ELSE Aide],
       [role |-> "assistant", content |-> Answer1] >>

RECURSIVE Turns(_)
Turns(k) == IF k = 0 THEN <<>> ELSE Turns(k - 1) \o TurnOf(k)

LongSession ==
    [chat_history |-> Turns(MAX_HISTORY_SIZE - 1),
     last_question |-> Turns(MAX_HISTORY_SIZE - 1)[2 * MAX_HISTORY_SIZE - 3].content,
     last_time |-> 0,
     created_at |-> 0]

InitHist ==
    /\ now = 0
    /\ sessions_store = [s \in {1} |-> LongSession]
    /\ next_id = 2
    /\ req = [r \in Reqs |-> IdleReq]
    /\ loop = Idle
    /\ reset_resp = NoReset
    /\ chats = 0
    /\ resets = 0
    /\ recorded = [s \in {1} |-> LongSession.chat_history]
    /\ reset_ids = {}

SpecHist == InitHist /\ [][Next]_vars

(***************************************************************************)
(* Requests in flight together, on a store that holds one unused session.  *)
(***************************************************************************)
InitConc ==
    /\ now = 0
    /\ sessions_store = [s \in {1} |-> NewSession(0)]
    /\ next_id = 2
    /\ req = [r \in Reqs |-> IdleReq]
    /\ loop = Idle
    /\ reset_resp = NoReset
    /\ chats = 0
    /\ resets = 0
    /\ recorded = [s \in {1} |-> <<>>]
    /\ reset_ids = {}

NextConc == Step(Reqs, RawQuestions, MaxChats, {500}, {<<>>, <<DocA>>}, {Answer1})

SpecConc == InitConc /\ [][NextConc]_vars

(***************************************************************************)
(* Validation: one client sending every request body of RawInputs, the     *)
(* collaborators answering without failure and without hits.               *)
(***************************************************************************)
NextValidate ==
    \/ \E raw \in RawInputs, session_id \in ClientIds :
           Receive(1, raw, session_id, MaxChats)
    \/ Sweep(1)
    \/ Lookup(1)
    \/ DupReject(1)
    \/ DupPass(1)
    \/ TranslateSkip(1)
    \/ \E outcome \in TranslateOutcomes : TranslateCall(1, outcome)
    \/ SearchOk(1, <<>>)
    \/ AnswerCanned(1)
    \/ Record(1)
    \/ Deliver(1)

SpecValidate == Init /\ [][NextValidate]_vars

(***************************************************************************)
(* Context assembly: one client, the search answering 200 with every list  *)
(* of up to MaxHits hits, titled or not, the generation answering 200.     *)
(***************************************************************************)
HitLists == UNION {[1..n -> {DocA, DocB}] : n \in 0..MaxHits}

NextAssemble ==
    \/ \E raw \in RawQuestions, session_id \in ClientIds :
           Receive(1, raw, session_id, MaxChats)
    \/ Sweep(1)
    \/ Lookup(1)
    \/ DupReject(1)
    \/ DupPass(1)
    \/ TranslateSkip(1)
    \/ \E outcome \in TranslateOutcomes : TranslateCall(1, outcome)
    \/ \E value \in HitLists : SearchOk(1, value)
    \/ AnswerCanned(1)
    \/ GenerateOk(1, Answer1)
    \/ Record(1)
    \/ Deliver(1)

SpecAssemble == Init /\ [][NextAssemble]_vars

(***************************************************************************)
(* The retry loop of search_documents(): one client, every outcome of each *)
(* attempt.  A request sent to a collaborator returns or times out, so a   *)
(* handler that can take a step takes one.                                 *)
(***************************************************************************)
NextSearch ==
    \/ \E raw \in RawQuestions, session_id \in ClientIds :
           Receive(1, raw, session_id, MaxChats)
    \/ Sweep(1)
    \/ Lookup(1)
    \/ DupReject(1)
    \/ DupPass(1)
    \/ TranslateSkip(1)
    \/ \E outcome \in TranslateOutcomes : TranslateCall(1, outcome)
    \/ \E value \in {<<>>, <<DocA>>} : SearchOk(1, value)
    \/ SearchRateLimited(1)
    \/ \E status_code \in ErrorStatuses : SearchHttpError(1, status_code)
    \/ SearchTimeout(1)
    \/ SearchException(1)
    \/ AnswerCanned(1)
    \/ GenerateOk(1, Answer1)
    \/ Record(1)
    \/ Deliver(1)

SpecSearch == Init /\ [][NextSearch]_vars /\ WF_vars(NextSearch)

(***************************************************************************)
(* Claims                                                                  *)
(***************************************************************************)
Pipeline == {"translate", "search", "answer", "record"}

InCalls(q, name) == \E i \in 1..Len(q.calls) : q.calls[i] = name

\* C1: every stored session's history has at most 2 * MAX_HISTORY_SIZE
\* entries and is the most recent suffix of all the turns recorded for that
\* session: when a turn exceeds the cap, the oldest entries are dropped.
C1_HistoryIsRecentSuffix ==
    \A sid \in DOMAIN sessions_store :
        LET h == sessions_store[sid].chat_history
            all == recorded[sid]
        IN  /\ Len(h) <= 2 * MAX_HISTORY_SIZE
            /\ Len(h) = IF Len(all) < 20 THEN Len(all) ELSE 20
            /\ \A i \in 1..Len(h) : h[i] = all[Len(all) - Len(h) + i]

\* C1 witness: a session whose recorded turns exceeded the cap twice.
C1_Witness ==
    \E sid \in DOMAIN sessions_store :
        /\ Len(recorded[sid]) = 2 * MAX_HISTORY_SIZE + 2
        /\ Len(sessions_store[sid].chat_history) = 2 * MAX_HISTORY_SIZE

\* C2: the duplicate test of a chat request rejects it with 429 if and only
\* if its question equals the session's last_question and less than
\* RATE_LIMIT_SECONDS have passed since last_time; no other step answers 429.
C2_RejectedIffDuplicateInWindow ==
    [][\A r \in Reqs :
          /\ (req[r].pc = "dupcheck" /\ req'[r].pc # "dupcheck") =>
                LET session == sessions_store[req[r].sid]
                    rejected == req'[r].pc = "done" /\ req'[r].status = 429
                IN  rejected <=>
                        /\ session.last_question = req[r].question
                        /\ now - session.last_time < 3
          /\ (req'[r].status = 429 /\ req[r].status # 429) =>
                req[r].pc = "dupcheck"]_vars

\* C2 witness: a request rejected as a duplicate, and the session holds
\* the same question asked 2 seconds earlier.
C2_Witness ==
    \E r \in Reqs :
        /\ req[r].pc = "done" /\ req[r].status = 429
        /\ req[r].sid \in DOMAIN sessions_store
        /\ sessions_store[req[r].sid].last_question = req[r].question
        /\ now - sessions_store[req[r].sid].last_time = 2

\* C3: a chat request that ends in an error reply (429, 500, 503) leaves its
\* session as get_or_create_session returned it, and a stored session only
\* changes in the step in which a request on it replies 200.
C3_ErrorRepliesMutateNothing ==
    [][/\ \A r \in Reqs :
            (req[r].pc # "done" /\ req'[r].pc = "done"
                /\ req'[r].status \in {429, 500, 503}) =>
                /\ req[r].sid \in DOMAIN sessions_store'
                /\ sessions_store'[req[r].sid] = req[r].snap
       /\ \A sid \in DOMAIN sessions_store \cap DOMAIN sessions_store' :
            sessions_store'[sid] # sessions_store[sid] =>
                \E r \in Reqs :
                    /\ req[r].sid = sid
                    /\ req[r].pc = "record"
                    /\ req'[r].pc = "done" /\ req'[r].status = 200]_vars

\* C3 witness: an error reply for a request on a session that holds turns.
C3_Witness ==
    \E r \in Reqs :
        /\ req[r].pc = "done" /\ req[r].status \in {429, 500, 503}
        /\ req[r].sid \in DOMAIN sessions_store
        /\ Len(sessions_store[req[r].sid].chat_history) > 0

\* C4: when the search returned no hit, the request replies with the canned
\* no-information answer in the question's language and generate_answer is
\* not called; generate_answer is called only with at least one hit.
C4_NoHitsNoGeneration ==
    \A r \in Reqs :
        LET q == req[r]
            searched == \/ q.pc \in {"answer", "record"}
                        \/ q.pc = "done" /\ q.status = 200
                        \/ InCalls(q, "generate_answer")
        IN  /\ (searched /\ Len(q.documents) = 0) =>
                /\ ~InCalls(q, "generate_answer")
                /\ q.pc \in {"record", "done"} =>
                      q.answer = (IF detect_language(q.question) = "fr"
                                  THEN NoInfoFr ELSE NoInfoEn)
                /\ q.pc = "done" => q.status = 200
            /\ InCalls(q, "generate_answer") => Len(q.documents) >= 1

\* C4 witness: a French question answered 200 from a search without hits.
C4_Witness ==
    \E r \in Reqs :
        /\ req[r].pc = "done" /\ req[r].status = 200
        /\ req[r].documents = <<>>
        /\ req[r].answer = NoInfoFr

\* C5: when the last attempt of search_documents fails with a 429 or a
\* timeout, the chat request ends in an error reply: it never goes on with
\* an empty result and never replies 200.
C5_ExhaustionPropagates ==
    \A r \in Reqs :
        (req[r].pc \in {"answer", "record", "done"}
            /\ req[r].search_reply \in {"429", "timeout"}) =>
            (req[r].pc = "done" /\ req[r].status # 200)

\* C6: two chat requests in flight together never both stand between the
\* session lookup and the recording of the turn, so two requests with the
\* same session and question never both pass the duplicate test; the
\* session a request tested is unchanged until it records its turn; and
\* every history is a sequence of (user, assistant) pairs.
Section == {"dupcheck"} \cup Pipeline

C6_CheckAndRecordAreAtomic ==
    /\ \A r1, r2 \in Reqs :
          r1 # r2 => ~(req[r1].pc \in Section /\ req[r2].pc \in Section)
    /\ \A r1, r2 \in Reqs :
          (r1 # r2 /\ req[r1].pc \in Pipeline /\ req[r2].pc \in Pipeline) =>
              ~(req[r1].sid = req[r2].sid /\ req[r1].question = req[r2].question)
    /\ \A r \in Reqs :
          req[r].pc \in Section =>
              /\ req[r].sid \in DOMAIN sessions_store
              /\ sessions_store[req[r].sid] = req[r].snap
    /\ \A sid \in DOMAIN sessions_store :
          LET h == sessions_store[sid].chat_history
          IN  /\ Len(h) % 2 = 0
              /\ \A i \in 1..Len(h) :
                    h[i].role = (IF i % 2 = 1 THEN "user" ELSE "assistant")

\* C6 witness: a request waits with the session id and the question of a
\* request that has passed the duplicate test and has not recorded yet.
C6_Witness ==
    \E r1, r2 \in Reqs :
        /\ r1 # r2
        /\ req[r1].pc \in Pipeline
        /\ req[r2].pc = "queued"
        /\ req[r2].session_id = req[r1].sid
        /\ req[r2].question = req[r1].question

\* C7: a question that got past validation is not empty, has at most
\* MAX_QUESTION_LENGTH characters and contains no denylisted substring in
\* any letter case; a body that is blank, too long or denylisted is
\* answered 422 without a session being looked up.
Denylisted(text) ==
    \E pattern \in dangerous :
        \E i \in 1..Len(text) :
            /\ i + Len(pattern) - 1 <= Len(text)
            /\ \A k \in 1..Len(pattern) :
                  LowerChar(text[i + k - 1]) = LowerChar(pattern[k])

C7_AcceptedQuestionsAreValid ==
    \A r \in Reqs :
        LET q == req[r]
            accepted == q.pc \notin {"idle", "done"}
                        \/ (q.pc = "done" /\ q.status # 422)
        IN  /\ accepted =>
                /\ Len(q.question) >= 1
                /\ Len(q.question) <= 500
                /\ ~Denylisted(q.question)
            /\ (q.pc # "idle"
                  /\ (Strip(q.raw) = <<>> \/ Len(Strip(q.raw)) > 500
                         \/ Denylisted(q.raw))) =>
                (q.pc = "done" /\ q.status = 422 /\ q.calls = <<>>)

\* C8 (as claimed): every upstream HTTP error status that reaches chat() is
\* answered 503 with a generic message in the question's language.
C8_EveryHttpErrorIs503 ==
    \A r \in Reqs :
        (req[r].pc = "done" /\ req[r].upstream # 0) =>
            /\ req[r].status = 503
            /\ req[r].detail \in
                  (IF detect_language(req[r].question) = "fr"
                   THEN {BusyFr, ServerFr} ELSE {BusyEn, ServerEn})

\* C8 (amended): an upstream 429 or 5xx is answered 503 with a generic
\* message in the question's language; any other upstream HTTP error status
\* is answered 500 with the one message "Erreur communication Azure".
C8_HttpErrorMapping ==
    \A r \in Reqs :
        (req[r].pc = "done" /\ req[r].upstream # 0) =>
            LET fr == detect_language(req[r].question) = "fr"
            IN  IF req[r].upstream = 429
                THEN /\ req[r].status = 503
                     /\ req[r].detail = (IF fr THEN BusyFr ELSE BusyEn)
                ELSE IF req[r].upstream >= 500
                THEN /\ req[r].status = 503
                     /\ req[r].detail = (IF fr THEN ServerFr ELSE ServerEn)
                ELSE /\ req[r].status = 500
                     /\ req[r].detail = CommMsg

\* C8 witness: a French question whose generation call was answered 500.
C8_Witness ==
    \E r \in Reqs :
        /\ req[r].pc = "done" /\ req[r].upstream = 500
        /\ req[r].status = 503 /\ req[r].detail = ServerFr
        /\ InCalls(req[r], "generate_answer")

\* C9: get_or_create_session with no id or an id not in the store returns
\* an id that was no key of the store, adds an empty session under it and
\* leaves the others as they were; with an id in the store it returns that
\* id and changes nothing.
C9_GetOrCreate ==
    [][\A r \in Reqs :
          (req[r].pc = "lookup" /\ req'[r].pc = "dupcheck") =>
              LET given == req[r].session_id
                  got == req'[r].sid
              IN  IF given = Absent \/ given \notin DOMAIN sessions_store
                  THEN /\ got \notin DOMAIN sessions_store
                       /\ DOMAIN sessions_store' = DOMAIN sessions_store \cup {got}
                       /\ sessions_store'[got].chat_history = <<>>
                       /\ sessions_store'[got].last_question = None
                       /\ sessions_store'[got].last_time = NoTime
                       /\ \A s \in DOMAIN sessions_store :
                             sessions_store'[s] = sessions_store[s]
                  ELSE /\ got = given
                       /\ sessions_store' = sessions_store]_vars

\* C9 witness: a request without id got a new session beside an existing
\* one that holds turns.
C9_Witness ==
    \E r \in Reqs :
        /\ req[r].pc = "dupcheck"
        /\ req[r].session_id = Absent
        /\ req[r].sid \in DOMAIN sessions_store
        /\ \E s \in DOMAIN sessions_store :
              s # req[r].sid /\ Len(sessions_store[s].chat_history) > 0

\* C10: a reset of an id not in the store answers 404 and changes nothing;
\* a reset of a stored id removes that session only; a later chat request
\* with that id gets a new id and an empty session and is not rejected as a
\* duplicate.
C10_Reset ==
    [][/\ resets' # resets =>
            LET id == reset_resp'.session_id
            IN  IF id \notin DOMAIN sessions_store
                THEN reset_resp'.status = 404 /\ sessions_store' = sessions_store
                ELSE /\ reset_resp'.status = 200
                     /\ DOMAIN sessions_store' = DOMAIN sessions_store \ {id}
                     /\ \A s \in DOMAIN sessions_store' :
                           sessions_store'[s] = sessions_store[s]
       /\ \A r \in Reqs :
            req[r].session_id \in reset_ids =>
                /\ (req[r].pc = "lookup" /\ req'[r].pc = "dupcheck") =>
                      /\ req'[r].sid # req[r].session_id
                      /\ req'[r].sid \notin DOMAIN sessions_store
                      /\ sessions_store'[req'[r].sid].chat_history = <<>>
                      /\ sessions_store'[req'[r].sid].last_question = None
                /\ req[r].pc = "dupcheck" => req'[r].status # 429]_vars

\* C10 witness: a request sent with the id of a reset session has passed
\* the duplicate test on its new session while another session is stored.
C10_Witness ==
    \E r \in Reqs :
        /\ req[r].session_id \in reset_ids
        /\ req[r].pc = "translate"
        /\ req[r].sid # req[r].session_id

\* Number of times the step `name` was taken by the request q.
CallCount(q, name) == Cardinality({i \in 1..Len(q.calls) : q.calls[i] = name})

\* C11: a chat request sweeps exactly once, before it resolves its session;
\* the sweep removes the sessions older than 7200 s and no other, so that at
\* the lookup no stored session is older; created_at never changes; a
\* request that carries the id of an expired session is given a new session
\* with an empty history.
C11_SweepBeforeLookup ==
    [][/\ \A r \in Reqs :
            /\ req[r].pc \in {"lookup", "dupcheck"} \cup Pipeline =>
                  /\ CallCount(req[r], "clean_old_sessions") = 1
                  /\ req[r].calls[1] = "clean_old_sessions"
            /\ req[r].pc = "lookup" =>
                  \A s \in DOMAIN sessions_store :
                      now - sessions_store[s].created_at <= SESSION_TTL
            /\ (req[r].pc = "queued" /\ req'[r].pc = "lookup") =>
                  /\ DOMAIN sessions_store' =
                        {s \in DOMAIN sessions_store :
                            now - sessions_store[s].created_at <= SESSION_TTL}
                  /\ \A s \in DOMAIN sessions_store' :
                        sessions_store'[s] = sessions_store[s]
            /\ (req[r].pc = "lookup" /\ req'[r].pc = "dupcheck"
                    /\ req[r].session_id \notin DOMAIN sessions_store) =>
                  /\ req'[r].sid # req[r].session_id
                  /\ req'[r].sid \notin DOMAIN sessions_store
                  /\ sessions_store'[req'[r].sid].chat_history = <<>>
       /\ \A s \in DOMAIN sessions_store \cap DOMAIN sessions_store' :
            sessions_store'[s].created_at = sessions_store[s].created_at]_vars

\* C11 witness: a request sent with the id of a session that the sweep of
\* this very request removed for its age is served by a new, empty session.
C11_Witness ==
    \E r \in Reqs :
        /\ req[r].pc = "dupcheck"
        /\ req[r].session_id \in IssuedIds \ reset_ids
        /\ req[r].session_id \notin DOMAIN sessions_store
        /\ req[r].sid # req[r].session_id
        /\ sessions_store[req[r].sid].chat_history = <<>>
        /\ now > SESSION_TTL


\* C12: a timeout of the generation call is not an error: the answer is
\* the canned apology in the language detected for the question (French for
\* fr, English otherwise) and the request ends with a 200 reply carrying it.
C12_GenerationTimeoutDegrades ==
    \A r \in Reqs :
        req[r].gen_reply = "timeout" =>
            /\ req[r].pc \in {"record", "done"}
            /\ req[r].answer =
                  (IF detect_language(req[r].question) = "fr"
                   THEN TimeoutFr ELSE TimeoutEn)
            /\ req[r].pc = "done" => req[r].status = 200

\* C12 witness: a French question whose generation call timed out has been
\* answered with status 200.
C12_Witness ==
    \E r \in Reqs :
        /\ req[r].gen_reply = "timeout"
        /\ req[r].pc = "done"
        /\ req[r].status = 200
        /\ req[r].user_lang = "fr"

\* C13: translate_to_english() never raises: after a translation call that
\* timed out, got an error status or a malformed body, the request is at
\* the search step with the original question as its query.
C13_TranslationFailsOpen ==
    [][\A r \in Reqs :
          req[r].pc = "translate" /\ req'[r] # req[r] =>
              /\ req'[r].pc = "search"
              /\ req'[r].translate_reply \in {"timeout", "http_error", "malformed"} =>
                    req'[r].translated_query = req[r].question
              /\ req'[r].question = req[r].question]_vars

\* C13 witness: the search has been called with the French question itself
\* after the translation call timed out.
C13_Witness ==
    \E r \in Reqs :
        /\ req[r].translate_reply = "timeout"
        /\ req[r].translated_query = Aide
        /\ InCalls(req[r], "search_documents")

Min(a, b) == IF a < b THEN a ELSE b

\* C14: the context has one labeled section for each of the first
\* min(3, number of hits) hits and the sources one title for each of them,
\* both in the order the search returned the hits; with no hit both are
\* empty.
C14_ContextAndSources ==
    \A r \in Reqs :
        req[r].pc = "answer" =>
            LET documents == req[r].documents
                n == Min(3, Len(documents))
            IN  /\ Len(req[r].context) = n
                /\ Len(req[r].sources) = n
                /\ \A i \in 1..n :
                      /\ req[r].context[i].content = documents[i].content
                      /\ req[r].context[i].label =
                            (IF documents[i].titled THEN documents[i].title
                             ELSE <<"N","/","A">>)
                      /\ req[r].sources[i] =
                            (IF documents[i].titled THEN documents[i].title
                             ELSE <<"Document sans titre">>)
                /\ documents = <<>> =>
                      req[r].context = <<>> /\ req[r].sources = <<>>

\* C14 witness: four hits were returned, the first three of them not all
\* alike, and three sections were assembled.
C14_Witness ==
    \E r \in Reqs :
        /\ req[r].pc = "answer"
        /\ Len(req[r].documents) = 4
        /\ req[r].documents[1] # req[r].documents[3]
        /\ Len(req[r].context) = 3
        /\ Len(req[r].sources) = 3

\* C15: whatever the search service answers, search_documents() sends at
\* most 3 requests and comes to an end: a request at the search step leaves
\* it, with a result or with an error.
C15_SearchBoundedAndTerminates ==
    /\ [](\A r \in Reqs : req[r].posts <= 3)
    /\ \A r \in Reqs : (req[r].pc = "search") ~> (req[r].pc # "search")

\* C15 witness: a search that was answered on its third request, after a
\* 429 or a timeout on the first two.
C15_Witness ==
    \E r \in Reqs :
        /\ req[r].posts = 3
        /\ req[r].pc = "answer"
        /\ req[r].search_reply = "200"

\* C16: in search_documents() an error status other than 429, or an
\* exception other than a timeout, ends the search at once with an error
\* reply and no further request; a timeout before the last attempt leaves
\* the search going with one more attempt, a timeout on the last attempt
\* ends the request with an error reply.
C16_SearchErrorsAndTimeouts ==
    [][\A r \in Reqs :
          (req[r].pc = "search" /\ req'[r] # req[r]) =>
              /\ req'[r].posts = req[r].posts + 1
              /\ req'[r].search_reply \in {"error", "exception"} =>
                    /\ req'[r].pc = "done"
                    /\ req'[r].status \in {500, 503}
              /\ (req'[r].search_reply = "timeout" /\ req[r].attempt < 2) =>
                    /\ req'[r].pc = "search"
                    /\ req'[r].attempt = req[r].attempt + 1
              /\ (req'[r].search_reply = "timeout" /\ req[r].attempt = 2) =>
                    /\ req'[r].pc = "done"
                    /\ req'[r].status = 500]_vars

\* C16 witness: a request answered 500 after three timeouts, or after the
\* third request timed out.
C16_Witness ==
    \E r \in Reqs :
        /\ req[r].pc = "done"
        /\ req[r].search_reply = "timeout"
        /\ req[r].posts = 3
        /\ req[r].status = 500

\* C17: for a question detected as English translate_to_english() returns
\* the question itself and sends nothing; the translation call is sent only
\* for a question detected as French.
C17_EnglishIsNotTranslated ==
    [][\A r \in Reqs :
          (req[r].pc = "translate" /\ req'[r] # req[r]) =>
              /\ detect_language(req[r].question) = "en" =>
                    /\ req'[r].translated_query = req[r].question
                    /\ ~InCalls(req'[r], "translate_post")
                    /\ req'[r].translate_reply = ""
              /\ InCalls(req'[r], "translate_post") =>
                    detect_language(req[r].question) = "fr"]_vars

\* C17 witness: an English question has reached the search step as its own
\* query, no translation call having been sent.
C17_Witness ==
    \E r \in Reqs :
        /\ req[r].pc = "search"
        /\ req[r].question = Vpn
        /\ req[r].user_lang = "en"
        /\ req[r].translated_query = Vpn
        /\ InCalls(req[r], "translate_to_english")
        /\ ~InCalls(req[r], "translate_post")

\* The place of a step in the order sweep, lookup, duplicate test,
\* translation, search, generation, recording.
Rank(name) ==
    CASE name = "clean_old_sessions" -> 1
      [] name = "get_or_create_session" -> 2
      [] name = "duplicate_check" -> 3
      [] name = "translate_to_english" -> 4
      [] name = "translate_post" -> 5
      [] name = "search_documents" -> 6
      [] name = "generate_answer" -> 7
      [] name = "record" -> 8

\* C18: the steps of one chat request are taken in the order sweep, lookup,
\* duplicate test, translation, search, generation, recording, none twice
\* and none before the one it follows; a request rejected as a duplicate
\* has called neither the translation nor the search nor the generation;
\* the turn is recorded only once the answer is there.
C18_StepOrder ==
    \A r \in Reqs :
        LET q == req[r]
            c == q.calls
        IN  /\ \A i \in 1..(Len(c) - 1) : Rank(c[i]) < Rank(c[i + 1])
            /\ InCalls(q, "get_or_create_session") => InCalls(q, "clean_old_sessions")
            /\ InCalls(q, "duplicate_check") => InCalls(q, "get_or_create_session")
            /\ InCalls(q, "translate_to_english") => InCalls(q, "duplicate_check")
            /\ InCalls(q, "translate_post") => InCalls(q, "translate_to_english")
            /\ InCalls(q, "search_documents") => InCalls(q, "translate_to_english")
            /\ InCalls(q, "generate_answer") => InCalls(q, "search_documents")
            /\ InCalls(q, "record") =>
                  /\ InCalls(q, "search_documents")
                  /\ q.answer # <<>>
                  /\ InCalls(q, "generate_answer") \/ q.documents = <<>>
            /\ (q.pc = "done" /\ q.status = 429) =>
                  c = <<"clean_old_sessions", "get_or_create_session",
                        "duplicate_check">>

\* C18 witness: a French question went through every step, the translation
\* call and the generation included, and was answered.
C18_Witness ==
    \E r \in Reqs :
        /\ req[r].pc = "done"
        /\ req[r].status = 200
        /\ req[r].calls = <<"clean_old_sessions", "get_or_create_session",
                            "duplicate_check", "translate_to_english",
                            "translate_post", "search_documents",
                            "generate_answer", "record">>

\* C19: generate_answer() sends the system prompt, then the last
\* min(5, length) entries of the session's history, oldest first, with
\* their roles and contents, then the question as a user message; the
\* stored history is the same after the call.
C19_MessageList ==
    [][\A r \in Reqs :
          (req[r].pc = "answer" /\ InCalls(req'[r], "generate_answer")) =>
              LET h == sessions_store[req[r].sid].chat_history
                  k == Min(5, Len(h))
                  m == req'[r].messages
              IN  /\ Len(m) = k + 2
                  /\ m[1].role = "system"
                  /\ \A i \in 1..k : m[1 + i] = h[Len(h) - k + i]
                  /\ m[k + 2] = [role |-> "user", content |-> req[r].question]
                  /\ sessions_store' = sessions_store]_vars

\* C19 witness: the generation was called for a session holding more than
\* five entries, and five of them were sent.
C19_Witness ==
    \E r \in Reqs :
        /\ req[r].pc = "record"
        /\ InCalls(req[r], "generate_answer")
        /\ Len(req[r].messages) = 7
        /\ Len(sessions_store[req[r].sid].chat_history) > 5

\* C20: when a chat request is answered 200, the session id of the reply
\* is in the store, the last two entries of that session's history are the
\* question as a user entry and the answer as an assistant entry, and
\* last_question is the question.
C20_SuccessfulTurnIsRecorded ==
    \A r \in Reqs :
        (req[r].pc = "done" /\ req[r].status = 200) =>
            /\ req[r].sid \in DOMAIN sessions_store
            /\ LET session == sessions_store[req[r].sid]
                   h == session.chat_history
               IN  /\ Len(h) >= 2
                   /\ h[Len(h) - 1] = [role |-> "user", content |-> req[r].question]
                   /\ h[Len(h)] = [role |-> "assistant", content |-> req[r].answer]
                   /\ session.last_question = req[r].question

\* C20 witness: a request answered 200 with the timeout apology on a session
\* that held another question's turn before.
C20_Witness ==
    \E r \in Reqs :
        /\ req[r].pc = "done"
        /\ req[r].status = 200
        /\ req[r].answer = TimeoutAnswer(req[r].user_lang)
        /\ Len(sessions_store[req[r].sid].chat_history) = 4
        /\ sessions_store[req[r].sid].chat_history[1].content # req[r].question

\* C21: the history of every stored session has an even number of entries
\* whose roles alternate user, assistant, user, assistant, ..., also once it
\* has been cut to the cap; last_question is None exactly when last_time
\* is None, which is exactly when the history is empty.
C21_HistoryAlternates ==
    \A s \in DOMAIN sessions_store :
        LET session == sessions_store[s]
            h == session.chat_history
        IN  /\ Len(h) % 2 = 0
            /\ \A i \in 1..Len(h) :
                  h[i].role = (IF i % 2 = 1 THEN "user" ELSE "assistant")
            /\ (session.last_question = None) <=> (session.last_time = NoTime)
            /\ (session.last_time = NoTime) <=> (h = <<>>)

\* C21 witness: a session whose history was cut to the cap, more turns
\* having been recorded for it than it holds.
C21_Witness ==
    \E s \in DOMAIN sessions_store :
        /\ Len(sessions_store[s].chat_history) = 2 * MAX_HISTORY_SIZE
        /\ Len(recorded[s]) > 2 * MAX_HISTORY_SIZE
        /\ sessions_store[s].last_question # None

====
